---- MODULE Spec2Model ----
(***************************************************************************)
(* Model of alphasenseingestor.py: the command-line procedure `cli` that   *)
(* loads a TOML configuration, authenticates, resolves the document        *)
(* metadata and uploads one document with attachments, together with the   *)
(* library functions it is built from (load_config,                        *)
(* load_metadata_from_json, authenticate_alphasense,                       *)
(* refresh_alphasense_token, upload_document_to_alphasense).               *)
(*                                                                         *)
(* Strings that the code takes apart (paths, JSON texts) are sequences of  *)
(* lexemes: <<"meta", ".json">> is the path meta.json, and                 *)
(* <<"{", "\"a\"", ":", "1", "}">> is the text {"a":1}.                    *)
(***************************************************************************)
EXTENDS Integers, Sequences, FiniteSets, TLC

VARIABLES
    argv,          \* what click hands to cli: document, attachments, config, metadata
    env,           \* what the run has observed of the outside world so far
    pc,            \* the stage of cli
    visited,       \* the stages cli has been in, in order
    reported,      \* which except clause of cli logged the failure
    exc,           \* the exception that ended the try block
    as_config,     \* cli's as_config
    cli_access_token,  \* cli's access_token
    cli_metadata,  \* cli's metadata after resolution
    network,       \* every HTTP exchange issued, in order
    handles,       \* every file handle upload opened, with whether it is still open
    call           \* a direct call of an Auth Client function and its result

vars == <<argv, env, pc, visited, reported, exc, as_config, cli_access_token,
          cli_metadata, network, handles, call>>

----------------------------------------------------------------------------
(* Bounds *)

MaxAttachments == 2

----------------------------------------------------------------------------
(* Python values *)

None == <<"None">>

NoExc == [cls |-> "none", msg |-> <<>>]

Raise(cls, msg) == [cls |-> cls, msg |-> msg]

\* The classes an exception of class cls is an instance of.
Bases(cls) ==
    CASE cls = "FileNotFoundError"       -> {"FileNotFoundError", "OSError"}
      [] cls = "KeyError"                -> {"KeyError", "LookupError"}
      [] cls = "HTTPError"               -> {"HTTPError", "RequestException", "OSError"}
      [] cls = "ConnectionError"         -> {"ConnectionError", "RequestException", "OSError"}
      [] cls = "RequestsJSONDecodeError" -> {"RequestsJSONDecodeError", "RequestException",
                                             "OSError", "JSONDecodeError", "ValueError"}
      [] cls = "JSONDecodeError"         -> {"JSONDecodeError", "ValueError"}
      [] cls = "SimpleJSONDecodeError"   -> {"SimpleJSONDecodeError", "ValueError"}
      [] cls = "TOMLDecodeError"         -> {"TOMLDecodeError", "ValueError"}
      [] cls = "TypeError"               -> {"TypeError"}
      [] OTHER                           -> {cls}

----------------------------------------------------------------------------
(* json.loads and json.dumps on lexeme sequences *)

StringToks == {"\"title\"", "\"Sample Document\"", "\"docAuthors\"", "\"authorName\"",
               "\"Test Author\"", "\"operation\"", "\"ADD\"", "\"T\"",
               "\"access_token\"", "\"refresh_token\"", "\"tok1\"", "\"tok2\"",
               "\"error\"", "\"id\""}

ScalarToks == StringToks \cup {"1", "true", "null"}

IsSpace(tok) == tok = " "

\* text with its insignificant whitespace dropped
RECURSIVE Strip(_)
Strip(t) ==
    IF t = <<>> THEN <<>>
    ELSE IF IsSpace(Head(t)) THEN Strip(Tail(t))
    ELSE <<Head(t)>> \o Strip(Tail(t))

Tok(t, i) == IF i >= 1 /\ i <= Len(t) THEN t[i] ELSE "<eof>"

\* Each returns the index just after what it parsed, or 0 when the text is malformed.
RECURSIVE ParseValue(_, _)
RECURSIVE ParseMembers(_, _)
RECURSIVE ParseElements(_, _)

ParseValue(t, i) ==
    CASE Tok(t, i) \in ScalarToks -> i + 1
      [] Tok(t, i) = "{" -> IF Tok(t, i + 1) = "}" THEN i + 2 ELSE ParseMembers(t, i + 1)
      [] Tok(t, i) = "[" -> IF Tok(t, i + 1) = "]" THEN i + 2 ELSE ParseElements(t, i + 1)
      [] OTHER -> 0

ParseMembers(t, i) ==
    IF Tok(t, i) \in StringToks /\ Tok(t, i + 1) = ":"
    THEN LET j == ParseValue(t, i + 2)
         IN  CASE j = 0 -> 0
               [] Tok(t, j) = "," -> ParseMembers(t, j + 1)
               [] Tok(t, j) = "}" -> j + 1
               [] OTHER -> 0
    ELSE 0

ParseElements(t, i) ==
    LET j == ParseValue(t, i)
    IN  CASE j = 0 -> 0
          [] Tok(t, j) = "," -> ParseElements(t, j + 1)
          [] Tok(t, j) = "]" -> j + 1
          [] OTHER -> 0

\* json.loads(text): the value (its lexemes without whitespace), or a decode error
json_loads(text) ==
    LET t == Strip(text)
    IN  IF ParseValue(t, 1) = Len(t) + 1
        THEN [ok |-> TRUE, value |-> t]
        ELSE [ok |-> FALSE, value |-> <<>>]

\* json.dumps(value, separators=(",", ":"))
json_dumps_compact(v) == v

\* json.dumps(value) with the default separators (", " and ": ")
RECURSIVE json_dumps(_)
json_dumps(v) ==
    IF v = <<>> THEN <<>>
    ELSE IF Head(v) \in {",", ":"} THEN <<Head(v), " ">> \o json_dumps(Tail(v))
    ELSE <<Head(v)>> \o json_dumps(Tail(v))

\* obj[key] on a parsed JSON value: the lexemes of the member's value
RECURSIVE FindMember(_, _, _)
FindMember(v, i, key) ==
    IF Tok(v, i) \notin StringToks THEN [found |-> FALSE, value |-> <<>>]
    ELSE LET j == ParseValue(v, i + 2)
         IN  IF v[i] = key
             THEN [found |-> TRUE, value |-> SubSeq(v, i + 2, j - 1)]
             ELSE IF Tok(v, j) = "," THEN FindMember(v, j + 1, key)
             ELSE [found |-> FALSE, value |-> <<>>]

IsDict(v) == Tok(v, 1) = "{"

----------------------------------------------------------------------------
(* pathlib.Path and str operations on lexeme sequences *)

SuffixToks == {".pdf", ".PDF", ".bin", ".docx", ".json", ".toml"}

\* Path(p).suffix
suffix(p) == IF Len(p) > 1 /\ p[Len(p)] \in SuffixToks THEN p[Len(p)] ELSE ""

\* str.lower()
lower(s) == IF s = ".PDF" THEN ".pdf" ELSE s

\* s.endswith('.json')
endswith_json(s) == Len(s) > 0 /\ s[Len(s)] = ".json"

\* Python truthiness of an optional string or of a tuple
Truthy(x) == x # None /\ x # <<>>

----------------------------------------------------------------------------
(* load_config *)

required_fields == <<"username", "password", "api_key", "client_id",
                     "client_secret", "auth_url", "ingestion_base_url">>

EmptyDict == [f \in {} |-> ""]

\* file: what is at config_path: [exists, parses, sections, fields]
load_config(config_path, file) ==
    IF ~file.exists
    THEN [exc |-> Raise("FileNotFoundError",
                        <<"Configuration file not found: ">> \o config_path),
          value |-> EmptyDict]
    ELSE IF ~file.parses
    THEN [exc |-> Raise("TOMLDecodeError", <<>>), value |-> EmptyDict]
    ELSE IF "alphasense" \notin file.sections
    THEN [exc |-> Raise("KeyError",
                        <<"Missing [alphasense] section in configuration file">>),
          value |-> EmptyDict]
    ELSE LET missing_fields ==
                 SelectSeq(required_fields, LAMBDA f : f \notin DOMAIN file.fields)
         IN  IF missing_fields # <<>>
             THEN [exc |-> Raise("KeyError",
                                 <<"Missing required auth fields: ">> \o missing_fields),
                   value |-> EmptyDict]
             ELSE [exc |-> NoExc, value |-> file.fields]

----------------------------------------------------------------------------
(* load_metadata_from_json *)

\* file: what is at metadata_path: [exists, text]
load_metadata_from_json(metadata_path, file) ==
    IF ~file.exists
    THEN [exc |-> Raise("FileNotFoundError",
                        <<"Metadata file not found: ">> \o metadata_path),
          value |-> <<>>]
    ELSE LET r == json_loads(file.text)
         IN  IF r.ok THEN [exc |-> NoExc, value |-> r.value]
             ELSE [exc |-> Raise("JSONDecodeError", <<>>), value |-> <<>>]

----------------------------------------------------------------------------
(* requests: one exchange with a server *)

\* reply: [transport, status, body, jsonError]; jsonError is the class this build
\* of requests raises from Response.json() on a body that is not JSON.

\* raise_for_status with the client-error range left out
raise_for_status_5xx_only(reply) ==
    IF reply.status >= 500 /\ reply.status < 600
    THEN Raise("HTTPError", <<>>)
    ELSE NoExc

\* Response.raise_for_status()
raise_for_status(reply) ==
    IF reply.status >= 400 /\ reply.status < 600
    THEN Raise("HTTPError", <<>>)
    ELSE NoExc

\* requests.post(...); response.raise_for_status(); return response.json()
post_and_parse(reply) ==
    IF reply.transport # "ok"
    THEN [exc |-> Raise("ConnectionError", <<>>), value |-> <<>>]
    ELSE IF raise_for_status(reply) # NoExc
    THEN [exc |-> raise_for_status(reply), value |-> <<>>]
    ELSE LET r == json_loads(reply.body)
         IN  IF r.ok THEN [exc |-> NoExc, value |-> r.value]
             ELSE [exc |-> Raise(reply.jsonError, <<>>), value |-> <<>>]

----------------------------------------------------------------------------
(* authenticate_alphasense, refresh_alphasense_token *)

DefaultAuthUrl == <<"https://api.alpha-sense.com/auth">>

FormHeaders(api_key) ==
    [x_api_key |-> api_key, Content_Type |-> "application/x-www-form-urlencoded"]

authenticate_request(api_key, username, password, client_id, client_secret, url) ==
    [fn |-> "authenticate",
     method |-> "POST",
     url |-> url,
     headers |-> FormHeaders(api_key),
     data |-> [grant_type |-> "password", username |-> username,
               password |-> password, client_id |-> client_id,
               client_secret |-> client_secret]]

refresh_request(api_key, client_id, client_secret, refresh_token, url) ==
    [fn |-> "refresh",
     method |-> "POST",
     url |-> DefaultAuthUrl,
     headers |-> FormHeaders(api_key),
     data |-> [grant_type |-> "refresh_token", client_id |-> client_id,
               client_secret |-> client_secret, refresh_token |-> refresh_token]]

authenticate_alphasense(api_key, username, password, client_id, client_secret, url, reply) ==
    [request |-> authenticate_request(api_key, username, password, client_id,
                                      client_secret, url),
     result |-> post_and_parse(reply)]

refresh_alphasense_token(api_key, client_id, client_secret, refresh_token, url, reply) ==
    [request |-> refresh_request(api_key, client_id, client_secret, refresh_token, url),
     result |-> post_and_parse(reply)]

----------------------------------------------------------------------------
(* upload_document_to_alphasense *)

FilePart(document_path) ==
    [name |-> "file", filename |-> document_path, mime_type |-> ""]

AttachmentPart(attachment_path) ==
    [name |-> "attachments",
     filename |-> attachment_path,
     mime_type |-> IF lower(suffix(attachment_path)) = ".pdf"
                   THEN "application/pdf"
                   ELSE "application/octet-stream"]

\* the loop skipping an attachment that does not exist instead of raising
RECURSIVE attachment_parts_skip_missing(_, _)
attachment_parts_skip_missing(attachments, fs) ==
    IF attachments = <<>> THEN [files |-> <<>>, exc |-> NoExc]
    ELSE LET attachment_path == Head(attachments)
             rest == attachment_parts_skip_missing(Tail(attachments), fs)
         IN  IF attachment_path \notin fs
             THEN rest
             ELSE [files |-> <<AttachmentPart(attachment_path)>> \o rest.files,
                   exc |-> rest.exc]

\* The loop over attachments: the parts appended (each with its file opened) until
\* the first path that does not exist. fs is the set of paths that exist.
RECURSIVE attachment_parts(_, _)
attachment_parts(attachments, fs) ==
    IF attachments = <<>> THEN [files |-> <<>>, exc |-> NoExc]
    ELSE LET attachment_path == Head(attachments)
         IN  IF attachment_path \notin fs
             THEN [files |-> <<>>,
                   exc |-> Raise("FileNotFoundError",
                                 <<"Attachment file not found: ">> \o attachment_path)]
             ELSE LET rest == attachment_parts(Tail(attachments), fs)
                  IN  [files |-> <<AttachmentPart(attachment_path)>> \o rest.files,
                       exc |-> rest.exc]

\* One handle per entry of files, all in the state `open`.
HandlesOf(files, open) ==
    [i \in 1..Len(files) |-> [path |-> files[i].filename, open |-> open]]

\* The handles of files once the function has exited; reached_finally says whether
\* control was inside the try block, whose finally clause closes every entry.
handles_at_exit(files, reached_finally) ==
    HandlesOf(files, ~reached_finally)

\* the request with client_id where the access token belongs
upload_request_bearer_client_id(access_token, files, metadata, base_url, client_id) ==
    [fn |-> "upload",
     method |-> "POST",
     url |-> base_url \o <<"/upload-document">>,
     headers |-> [Authorization |-> <<"bearer ">> \o client_id,
                  clientId |-> client_id],
     files |-> files,
     data |-> [metadata |-> json_dumps(metadata)]]

upload_request(access_token, files, metadata, base_url, client_id) ==
    [fn |-> "upload",
     method |-> "POST",
     url |-> base_url \o <<"/upload-document">>,
     headers |-> [Authorization |-> <<"bearer ">> \o access_token,
                  clientId |-> client_id],
     files |-> files,
     data |-> [metadata |-> json_dumps(metadata)]]

upload_document_to_alphasense(access_token, document_path, metadata, attachments, base_url, client_id, fs, reply) ==
    IF document_path \notin fs
    THEN [exc |-> Raise("FileNotFoundError",
                        <<"Document file not found: ">> \o document_path),
          value |-> <<>>, requests |-> <<>>, handles |-> <<>>]
    ELSE LET att == IF Truthy(attachments)
                    THEN attachment_parts(attachments, fs)
                    ELSE [files |-> <<>>, exc |-> NoExc]
             files == <<FilePart(document_path)>> \o att.files
         IN  IF att.exc # NoExc
             THEN [exc |-> att.exc, value |-> <<>>, requests |-> <<>>,
                   handles |-> handles_at_exit(files, FALSE)]
             ELSE LET request == upload_request(access_token, files, metadata,
                                                base_url, client_id)
                      r == post_and_parse(reply)
                  IN  [exc |-> r.exc, value |-> r.value,
                       requests |-> <<[request |-> request, reply |-> reply]>>,
                       handles |-> handles_at_exit(files, TRUE)]

----------------------------------------------------------------------------
(* cli: the except clauses *)

\* the first except clause naming FileNotFoundError alone
handler_without_KeyError(cls) ==
    IF "FileNotFoundError" \in Bases(cls) THEN "ConfigurationError"
    ELSE IF "RequestException" \in Bases(cls) THEN "AuthenticationError"
    ELSE IF "JSONDecodeError" \in Bases(cls) THEN "InvalidMetadataError"
    ELSE "uncaught"

\* Which except clause of cli takes an exception of class cls.
handler(cls) ==
    IF Bases(cls) \cap {"FileNotFoundError", "KeyError"} # {} THEN "ConfigurationError"
    ELSE IF "RequestException" \in Bases(cls) THEN "AuthenticationError"
    ELSE IF "JSONDecodeError" \in Bases(cls) THEN "InvalidMetadataError"
    ELSE "uncaught"

DefaultMetadata ==
    <<"{", "\"title\"", ":", "\"Sample Document\"", ",",
      "\"docAuthors\"", ":", "[", "{", "\"authorName\"", ":", "\"Test Author\"", ",",
      "\"operation\"", ":", "\"ADD\"", "}", "]", "}">>

----------------------------------------------------------------------------
(* The inputs and the outside world *)

BoundedSeq(S, n) == UNION {[1..k -> S] : k \in 0..n}

Document == <<"report", ".docx">>

AttachmentPaths == {<<"a", ".PDF">>, <<"b", ".bin">>}

ConfigPath == <<"alphasense", ".toml">>

MetadataPath == <<"meta", ".json">>

InlineMetadata == <<"{", "\"title\"", ":", " ", "\"T\"", "}">>

MalformedMetadata == <<"{", "\"title\"", ":">>

\* What click can hand over for -m: nothing, an empty string, a path, a text.
MetadataArgs ==
    {None, <<>>, MetadataPath, InlineMetadata, MalformedMetadata, <<"{", ".json">>}

Args ==
    [document : {Document},
     attachments : BoundedSeq(AttachmentPaths, MaxAttachments),
     config : {ConfigPath},
     metadata : MetadataArgs]

\* The class Response.json() raises on a body that is not JSON: requests >= 2.27
\* raises its own JSONDecodeError (a RequestException), older builds raise the
\* json module's, or simplejson's when that package is installed.
JsonErrorClasses == {"RequestsJSONDecodeError", "JSONDecodeError", "SimpleJSONDecodeError"}

ConfigUrls == {DefaultAuthUrl, <<"https://auth.example/token">>}

FullFields(auth_url) ==
    [username |-> <<"user">>, password |-> <<"pw">>, api_key |-> <<"key">>,
     client_id |-> <<"cid">>, client_secret |-> <<"secret">>,
     auth_url |-> auth_url, ingestion_base_url |-> <<"https://ingest.example/v1">>]

Without(d, keys) == [k \in (DOMAIN d) \ keys |-> d[k]]

RequiredSet == {required_fields[i] : i \in 1..Len(required_fields)}

ConfigFiles ==
    {[exists |-> FALSE, parses |-> FALSE, sections |-> {}, fields |-> EmptyDict],
     [exists |-> TRUE, parses |-> FALSE, sections |-> {}, fields |-> EmptyDict],
     [exists |-> TRUE, parses |-> TRUE, sections |-> {"other"}, fields |-> EmptyDict]}
    \cup {[exists |-> TRUE, parses |-> TRUE, sections |-> {"alphasense"},
           fields |-> FullFields(u)] : u \in ConfigUrls}
    \cup {[exists |-> TRUE, parses |-> TRUE, sections |-> {"alphasense"},
           fields |-> Without(FullFields(DefaultAuthUrl), {f})] : f \in RequiredSet}
    \cup {[exists |-> TRUE, parses |-> TRUE, sections |-> {"alphasense"},
           fields |-> Without(FullFields(DefaultAuthUrl), RequiredSet)]}

MetadataFiles ==
    {[exists |-> FALSE, text |-> <<>>],
     [exists |-> TRUE, text |-> <<"{", "\"title\"", ":", "\"T\"", "}">>],
     [exists |-> TRUE, text |-> <<"{", "\"title\"", "}">>]}

Statuses == {200, 204, 304, 401, 503}

AuthBodies ==
    {<<"{", "\"access_token\"", ":", "\"tok1\"", "}">>,
     <<"{", "\"access_token\"", ":", "\"tok2\"", ",", " ",
       "\"refresh_token\"", ":", "\"tok1\"", "}">>,
     <<"{", "\"error\"", ":", "\"T\"", "}">>,
     <<"[", "\"access_token\"", "]">>,
     <<"<html>">>}

UploadBodies == {<<"{", "\"id\"", ":", "1", "}">>, <<>>}

Replies(bodies, jsonError) ==
    [transport : {"ok"}, status : Statuses, body : bodies, jsonError : {jsonError}]
    \cup {[transport |-> "failed", status |-> 0, body |-> <<>>, jsonError |-> jsonError]}

----------------------------------------------------------------------------
(* cli *)

NoCall == [fn |-> "none"]

Rest ==
    /\ pc = "Start"
    /\ visited = <<"Start">>
    /\ reported = "none"
    /\ exc = NoExc
    /\ as_config = EmptyDict
    /\ cli_access_token = <<>>
    /\ cli_metadata = <<>>
    /\ network = <<>>
    /\ handles = <<>>
    /\ call = NoCall

Init ==
    /\ argv \in Args
    /\ env \in [jsonError : JsonErrorClasses, config : {<<>>}, metafile : {<<>>},
                fs : {<<>>}]
    /\ Rest

Goto(stage) ==
    /\ pc' = stage
    /\ visited' = Append(visited, stage)
    /\ UNCHANGED <<exc, reported>>

\* The try block ends with exception e: the first matching except clause logs it,
\* and an exception none of them matches leaves cli.
Fail(e) ==
    /\ exc' = e
    /\ reported' = IF handler(e.cls) = "uncaught" THEN "none" ELSE handler(e.cls)
    /\ pc' = IF handler(e.cls) = "uncaught" THEN "Crashed" ELSE "Failed"
    /\ visited' = Append(visited, pc')

LoadConfig ==
    /\ pc = "Start"
    /\ \E file \in ConfigFiles :
          LET r == load_config(argv.config, file)
          IN  /\ env' = [env EXCEPT !.config = <<file>>]
              /\ IF r.exc = NoExc
                 THEN as_config' = r.value /\ Goto("Configured")
                 ELSE as_config' = as_config /\ Fail(r.exc)
    /\ UNCHANGED <<argv, cli_access_token, cli_metadata, network, handles, call>>

\* auth_response.get('access_token') in place of auth_response['access_token']
access_token_get(auth_response) ==
    IF ~IsDict(auth_response)
    THEN [exc |-> Raise("TypeError", <<>>), value |-> <<>>]
    ELSE LET m == FindMember(auth_response, 2, "\"access_token\"")
         IN  IF m.found THEN [exc |-> NoExc, value |-> m.value]
             ELSE [exc |-> NoExc, value |-> None]

\* auth_response['access_token']
access_token_of(auth_response) ==
    IF ~IsDict(auth_response)
    THEN [exc |-> Raise("TypeError", <<>>), value |-> <<>>]
    ELSE LET m == FindMember(auth_response, 2, "\"access_token\"")
         IN  IF m.found THEN [exc |-> NoExc, value |-> m.value]
             ELSE [exc |-> Raise("KeyError", <<"access_token">>), value |-> <<>>]

Authenticate ==
    /\ pc = "Configured"
    /\ \E reply \in Replies(AuthBodies, env.jsonError) :
          LET a == authenticate_alphasense(as_config["api_key"], as_config["username"],
                                           as_config["password"], as_config["client_id"],
                                           as_config["client_secret"],
                                           as_config["auth_url"], reply)
              t == access_token_of(a.result.value)
          IN  /\ network' = Append(network, [request |-> a.request, reply |-> reply])
              /\ IF a.result.exc # NoExc
                 THEN cli_access_token' = cli_access_token /\ Fail(a.result.exc)
                 ELSE IF t.exc # NoExc
                 THEN cli_access_token' = cli_access_token /\ Fail(t.exc)
                 ELSE cli_access_token' = t.value /\ Goto("Authenticated")
    /\ UNCHANGED <<argv, env, as_config, cli_metadata, handles, call>>

\* the metadata branch without the test for a .json path
resolve_metadata_inline_only(arg, file) ==
    IF Truthy(arg)
    THEN LET r == json_loads(arg)
         IN  IF r.ok THEN [exc |-> NoExc, value |-> r.value]
             ELSE [exc |-> Raise("JSONDecodeError", <<>>), value |-> <<>>]
    ELSE [exc |-> NoExc, value |-> DefaultMetadata]

\* The metadata branch of cli; file is what is at the path when one is read.
resolve_metadata(arg, file) ==
    IF Truthy(arg)
    THEN IF endswith_json(arg)
         THEN load_metadata_from_json(arg, file)
         ELSE LET r == json_loads(arg)
              IN  IF r.ok THEN [exc |-> NoExc, value |-> r.value]
                  ELSE [exc |-> Raise("JSONDecodeError", <<>>), value |-> <<>>]
    ELSE [exc |-> NoExc, value |-> DefaultMetadata]

ReadsMetadataFile(arg) == Truthy(arg) /\ endswith_json(arg)

ResolveMetadata ==
    /\ pc = "Authenticated"
    /\ \E file \in MetadataFiles :
          LET r == resolve_metadata(argv.metadata, file)
          IN  /\ env' = [env EXCEPT !.metafile =
                             IF ReadsMetadataFile(argv.metadata) THEN <<file>> ELSE <<>>]
              /\ IF r.exc = NoExc
                 THEN cli_metadata' = r.value /\ Goto("MetadataResolved")
                 ELSE cli_metadata' = cli_metadata /\ Fail(r.exc)
    /\ UNCHANGED <<argv, as_config, cli_access_token, network, handles, call>>

PathsOf(a) == {a.document} \cup {a.attachments[i] : i \in 1..Len(a.attachments)}

Upload ==
    /\ pc = "MetadataResolved"
    /\ \E fs \in SUBSET PathsOf(argv), reply \in Replies(UploadBodies, env.jsonError) :
          LET u == upload_document_to_alphasense(cli_access_token, argv.document,
                                                 cli_metadata, argv.attachments,
                                                 as_config["ingestion_base_url"],
                                                 <<"enterprise-sync">>, fs, reply)
          IN  /\ env' = [env EXCEPT !.fs = <<fs>>]
              /\ network' = network \o u.requests
              /\ handles' = u.handles
              /\ IF u.exc = NoExc THEN Goto("Uploaded") ELSE Fail(u.exc)
    /\ UNCHANGED <<argv, as_config, cli_access_token, cli_metadata, call>>

\* The try block is left normally and cli returns.
Return ==
    /\ pc = "Uploaded"
    /\ Goto("Done")
    /\ UNCHANGED <<argv, env, as_config, cli_access_token, cli_metadata, network,
                   handles, call>>

Next == LoadConfig \/ Authenticate \/ ResolveMetadata \/ Upload \/ Return

Spec == Init /\ [][Next]_vars

----------------------------------------------------------------------------
(* The Auth Client functions called directly, as a library *)

AuthUrls == ConfigUrls \cup {<<"https://sso.example/oauth">>}

ApiKeys == {<<"key">>, <<"key2">>}

RefreshTokens == {<<"rt1">>, <<"rt2">>}

InitAuthClient ==
    /\ argv = [document |-> Document, attachments |-> <<>>, config |-> ConfigPath,
               metadata |-> None]
    /\ env \in [jsonError : JsonErrorClasses, config : {<<>>}, metafile : {<<>>},
                fs : {<<>>}]
    /\ Rest

CallAuthenticate ==
    /\ call = NoCall
    /\ \E api_key \in ApiKeys, url \in AuthUrls,
          reply \in Replies(AuthBodies, env.jsonError) :
          LET a == authenticate_alphasense(api_key, <<"user">>, <<"pw">>, <<"cid">>,
                                           <<"secret">>, url, reply)
          IN  /\ call' = [fn |-> "authenticate", api_key |-> api_key,
                          client_id |-> <<"cid">>, client_secret |-> <<"secret">>,
                          refresh_token |-> <<>>, url |-> url, result |-> a.result]
              /\ network' = Append(network, [request |-> a.request, reply |-> reply])
    /\ UNCHANGED <<argv, env, pc, visited, reported, exc, as_config, cli_access_token,
                   cli_metadata, handles>>

CallRefresh ==
    /\ call = NoCall
    /\ \E api_key \in ApiKeys, refresh_token \in RefreshTokens, url \in AuthUrls,
          reply \in Replies(AuthBodies, env.jsonError) :
          LET a == refresh_alphasense_token(api_key, <<"cid">>, <<"secret">>,
                                            refresh_token, url, reply)
          IN  /\ call' = [fn |-> "refresh", api_key |-> api_key,
                          client_id |-> <<"cid">>, client_secret |-> <<"secret">>,
                          refresh_token |-> refresh_token, url |-> url,
                          result |-> a.result]
              /\ network' = Append(network, [request |-> a.request, reply |-> reply])
    /\ UNCHANGED <<argv, env, pc, visited, reported, exc, as_config, cli_access_token,
                   cli_metadata, handles>>

NextAuthClient == CallAuthenticate \/ CallRefresh

SpecAuthClient == InitAuthClient /\ [][NextAuthClient]_vars

----------------------------------------------------------------------------
(* What the claims speak of *)

Exchanges(fn) == SelectSeq(network, LAMBDA x : x.request.fn = fn)

Is2xx(reply) == reply.transport = "ok" /\ reply.status >= 200 /\ reply.status <= 299

\* upload_document_to_alphasense has been called and has exited
UploadExited == env.fs # <<>>

\* the document and the attachments in the order upload looks at them
UploadOrder == <<argv.document>> \o argv.attachments

Missing(i) == UploadOrder[i] \notin env.fs[1]

FirstMissing == CHOOSE i \in 1..Len(UploadOrder) :
                    Missing(i) /\ \A j \in 1..(i - 1) : ~Missing(j)

SomeMissing == \E i \in 1..Len(UploadOrder) : Missing(i)

----------------------------------------------------------------------------
(* C1 *)

\* C1: whenever upload has exited, on whatever path (success, HTTP failure,
\* transport exception, or a missing attachment found after the document or earlier
\* attachments were opened), none of the file handles it opened is still open.
C1_NoHandleOpenAfterUpload ==
    UploadExited => \A i \in 1..Len(handles) : ~handles[i].open

----------------------------------------------------------------------------
(* C2 *)

\* C2: whenever upload was called with a document or attachment path that does not
\* exist, it failed with FileNotFoundError whose message names the first missing
\* path (document first, then the attachments in order), and it issued no request.
C2_MissingPathFailsBeforeRequest ==
    (UploadExited /\ SomeMissing) =>
        /\ exc.cls = "FileNotFoundError"
        /\ Len(exc.msg) > 1
        /\ SubSeq(exc.msg, 2, Len(exc.msg)) = UploadOrder[FirstMissing]
        /\ Exchanges("upload") = <<>>

\* C2 witness: the document and the first attachment exist, the second attachment
\* does not, and upload has failed.
C2_Witness ==
    /\ UploadExited
    /\ Len(argv.attachments) = 2
    /\ argv.attachments[1] # argv.attachments[2]
    /\ env.fs[1] = {argv.document, argv.attachments[1]}
    /\ pc = "Failed"

----------------------------------------------------------------------------
(* C6 *)

UploadAnsweredWithFailure ==
    /\ Exchanges("authenticate") # <<>>
    /\ cli_access_token # <<>>
    /\ Exchanges("upload") # <<>>
    /\ ~Is2xx(Exchanges("upload")[1].reply)

\* C6: whenever authentication succeeded and the ingestion endpoint answered the
\* upload request with a non-2xx status (or the transport failed), the run ends in
\* Failed(UploadError): the failure is reported as an upload failure, never as an
\* authentication or a configuration failure.
C6_UploadFailureReportedAsUploadError ==
    UploadAnsweredWithFailure => (pc = "Failed" /\ reported = "UploadError")

----------------------------------------------------------------------------
(* C7 *)

\* C7: the one request refresh issues is a POST to the authUrl it was given (the
\* endpoint authenticate uses for the same authUrl), with header x-api-key = apiKey
\* and body grant_type = "refresh_token" plus client_id, client_secret, refresh_token.
C7_RefreshPostsToGivenAuthUrl ==
    call.fn = "refresh" =>
        /\ Len(network) = 1
        /\ network[1].request.method = "POST"
        /\ network[1].request.url = call.url
        /\ network[1].request.url =
               authenticate_request(call.api_key, <<"user">>, <<"pw">>, call.client_id,
                                    call.client_secret, call.url).url
        /\ network[1].request.headers.x_api_key = call.api_key
        /\ network[1].request.data =
               [grant_type |-> "refresh_token", client_id |-> call.client_id,
                client_secret |-> call.client_secret,
                refresh_token |-> call.refresh_token]

----------------------------------------------------------------------------
(* C3 *)

AuthReply == network[1].reply

AuthAnswered == Exchanges("authenticate") # <<>> /\ network[1].request.fn = "authenticate"

AuthFailureReported ==
    /\ pc = "Failed"
    /\ reported = "AuthenticationError"
    /\ Len(network) = 1
    /\ cli_metadata = <<>>
    /\ ~UploadExited

\* C3 as stated: whenever the authentication endpoint answered with a non-2xx status
\* (or the transport failed), the run is in Failed(AuthenticationError) and nothing
\* further was issued: metadata is not resolved and upload is not attempted.
C3_Non2xxAuthFails ==
    (AuthAnswered /\ ~Is2xx(AuthReply)) => AuthFailureReported

\* C3 amended: whenever the authentication endpoint answered with a 4xx or 5xx
\* status (or the transport failed), the run is in Failed(AuthenticationError) and
\* nothing further was issued: metadata is not resolved and upload is not attempted.
C3_ErrorStatusAuthFails ==
    (AuthAnswered /\ (AuthReply.transport # "ok" \/ AuthReply.status >= 400))
        => AuthFailureReported

\* C3 witness: the authentication endpoint answered 401 with a body that carries an
\* access token, and the run has failed.
C3_Witness ==
    /\ AuthAnswered
    /\ AuthReply.status = 401
    /\ AuthReply.body = <<"{", "\"access_token\"", ":", "\"tok1\"", "}">>
    /\ pc = "Failed"

----------------------------------------------------------------------------
(* C4 *)

ConfigRead == env.config # <<>>

\* the three ways of failing that the claim names
ConfigUnusable(file) ==
    \/ ~file.exists
    \/ file.parses /\ "alphasense" \notin file.sections
    \/ file.parses /\ "alphasense" \in file.sections
          /\ \E i \in 1..Len(required_fields) : required_fields[i] \notin DOMAIN file.fields

\* C4: whenever loading the credentials failed (configuration file absent,
\* [alphasense] section absent, or one of the seven required fields missing), the run
\* is in Failed(ConfigurationError) and no network request was issued.
C4_ConfigFailureBeforeNetwork ==
    (ConfigRead /\ ConfigUnusable(env.config[1])) =>
        /\ pc = "Failed"
        /\ reported = "ConfigurationError"
        /\ network = <<>>

\* C4 witness: the configuration has its section but lacks only client_secret, and
\* the run has failed.
C4_Witness ==
    /\ ConfigRead
    /\ env.config[1].parses
    /\ "alphasense" \in env.config[1].sections
    /\ RequiredSet \ DOMAIN env.config[1].fields = {"client_secret"}
    /\ pc = "Failed"

----------------------------------------------------------------------------
(* C5 *)

\* the authentication endpoint answered 2xx with a JSON object without access_token
AuthAnsweredWithoutToken ==
    /\ AuthAnswered
    /\ Is2xx(AuthReply)
    /\ AuthReply.body = <<"{", "\"error\"", ":", "\"T\"", "}">>

\* a failure that none of cli's except clauses names
OutsideTaxonomy == exc.cls \in {"TypeError", "TOMLDecodeError", "SimpleJSONDecodeError"}

\* C5 as stated: a failure outside the taxonomy is not recovered; in particular,
\* when the authentication endpoint answered 2xx with a JSON body that lacks
\* access_token, the run is in no reported Failed state: the error left cli uncaught.
C5_MissingTokenPropagates ==
    /\ OutsideTaxonomy => (pc = "Crashed" /\ reported = "none")
    /\ AuthAnsweredWithoutToken => (pc = "Crashed" /\ reported = "none")

\* C5 amended: a failure that no except clause of cli names (a TypeError, a TOML or
\* simplejson decode error) is not recovered and leaves cli uncaught; but when the
\* authentication endpoint answered 2xx with a JSON object that lacks access_token,
\* the KeyError is caught by the configuration clause: the run is in the reported
\* state Failed(ConfigurationError), and no upload request was issued.
C5_MissingTokenReportedAsConfiguration ==
    /\ OutsideTaxonomy => (pc = "Crashed" /\ reported = "none")
    /\ AuthAnsweredWithoutToken =>
          /\ pc = "Failed"
          /\ reported = "ConfigurationError"
          /\ exc.cls = "KeyError"
          /\ Len(network) = 1

\* C5 witness: the authentication endpoint answered 200 with an object that lacks
\* access_token, and the try block has ended.
C5_Witness ==
    /\ AuthAnsweredWithoutToken
    /\ AuthReply.status = 200
    /\ exc.cls = "KeyError"

----------------------------------------------------------------------------
(* C8 *)

\* a run without attachments and without -m in which both endpoints answered 2xx
ScenarioA ==
    /\ argv.attachments = <<>>
    /\ argv.metadata = None
    /\ ConfigRead /\ ~ConfigUnusable(env.config[1]) /\ env.config[1].parses
    /\ UploadExited /\ argv.document \in env.fs[1]
    /\ Len(network) = 2
    /\ network[1].request.fn = "authenticate" /\ Is2xx(network[1].reply)
    /\ network[2].request.fn = "upload" /\ Is2xx(network[2].reply)

\* {"title": "Sample Document", "docAuthors": [{"authorName": "Test Author",
\* "operation": "ADD"}]} as json.dumps writes it
DefaultMetadataText ==
    <<"{", "\"title\"", ":", " ", "\"Sample Document\"", ",", " ",
      "\"docAuthors\"", ":", " ", "[", "{", "\"authorName\"", ":", " ",
      "\"Test Author\"", ",", " ", "\"operation\"", ":", " ", "\"ADD\"", "}", "]", "}">>

PartsNamed(request, name) == SelectSeq(request.files, LAMBDA part : part.name = name)

ScenarioARequest ==
    /\ Len(PartsNamed(network[2].request, "file")) = 1
    /\ Len(PartsNamed(network[2].request, "attachments")) = 0
    /\ network[2].request.data.metadata = DefaultMetadataText

\* C8 as stated: in a run with a valid configuration, an existing document, no
\* attachments, no metadata argument and 2xx answers from both endpoints, cli goes
\* on to Done, and the one upload request holds exactly one part named file, no part
\* named attachments, and the JSON text of the fixed default object as metadata.
C8_ScenarioAReachesDone ==
    ScenarioA => (pc \in {"Uploaded", "Done"} /\ ScenarioARequest)

\* C8 amended: the same, for runs in which the 2xx answer of the ingestion endpoint
\* carries a JSON body.
C8_ScenarioAWithJsonBodyReachesDone ==
    (ScenarioA /\ network[2].reply.body = <<"{", "\"id\"", ":", "1", "}">>)
        => (pc \in {"Uploaded", "Done"} /\ ScenarioARequest)

\* C8 witness: such a run has reached Done.
C8_Witness ==
    /\ ScenarioA
    /\ network[2].reply.body = <<"{", "\"id\"", ":", "1", "}">>
    /\ pc = "Done"

----------------------------------------------------------------------------
(* C9 *)

Stages == {visited[i] : i \in 1..Len(visited)}

\* cli has been through its metadata branch
MetadataBranchDone == "Authenticated" \in Stages /\ pc # "Authenticated"

\* the arguments that name a JSON file, the texts that are not JSON
PathArgs == {MetadataPath, <<"{", ".json">>}

MalformedTexts == {MalformedMetadata, <<>>, <<"{", "\"title\"", "}">>}

NoUpload == Exchanges("upload") = <<>> /\ ~UploadExited

MetadataFailures(arg) ==
    /\ (arg \in PathArgs /\ ~env.metafile[1].exists)
          => (pc = "Failed" /\ reported = "ConfigurationError" /\ NoUpload)
    /\ (\/ arg \notin PathArgs /\ arg \in MalformedTexts
        \/ arg \in PathArgs /\ env.metafile[1].exists
              /\ env.metafile[1].text \in MalformedTexts)
          => (pc = "Failed" /\ reported = "InvalidMetadataError" /\ NoUpload)

\* C9 as stated: in a run that reached Authenticated with a metadata argument given,
\* an argument that names a JSON file that does not exist leads to
\* Failed(ConfigurationError), a malformed JSON text (inline or in the file) leads to
\* Failed(InvalidMetadataError), and in both cases no upload request is issued.
C9_GivenMetadataFailures ==
    (MetadataBranchDone /\ argv.metadata # None) => MetadataFailures(argv.metadata)

\* C9 amended: the same, for a non-empty metadata argument (an empty string counts
\* as no argument: the default metadata is used and the upload goes ahead).
C9_NonEmptyMetadataFailures ==
    (MetadataBranchDone /\ argv.metadata # None /\ argv.metadata # <<>>)
        => MetadataFailures(argv.metadata)

\* C9 witness: the argument names a JSON file that does not exist, and the run has
\* failed.
C9_Witness ==
    /\ MetadataBranchDone
    /\ argv.metadata = MetadataPath
    /\ ~env.metafile[1].exists
    /\ pc = "Failed"

----------------------------------------------------------------------------
(* C10 *)

Order == <<"Start", "Configured", "Authenticated", "MetadataResolved", "Uploaded", "Done">>

IsPrefix(a, b) == Len(a) <= Len(b) /\ a = SubSeq(b, 1, Len(a))

\* the stages were visited in order, left at most once and then for good
VisitedInOrder ==
    /\ pc = visited[Len(visited)]
    /\ \/ IsPrefix(visited, Order)
       \/ /\ visited[Len(visited)] \in {"Failed", "Crashed"}
          /\ IsPrefix(SubSeq(visited, 1, Len(visited) - 1), Order)
          /\ Len(visited) - 1 < Len(Order) - 1

TokenBodies ==
    {<<"{", "\"access_token\"", ":", "\"tok1\"", "}">>,
     <<"{", "\"access_token\"", ":", "\"tok2\"", ",", " ",
       "\"refresh_token\"", ":", "\"tok1\"", "}">>}

TokenIn(body) ==
    IF body = <<"{", "\"access_token\"", ":", "\"tok1\"", "}">>
    THEN <<"\"tok1\"">> ELSE <<"\"tok2\"">>

\* what holds of every run, given which answers of the authentication endpoint
\* let the run go on
RunDiscipline(AuthAccepted(_)) ==
    /\ VisitedInOrder
    /\ Len(Exchanges("authenticate")) <= 1
    /\ Len(Exchanges("upload")) <= 1
    /\ Exchanges("refresh") = <<>>
    /\ Exchanges("upload") # <<>> =>
          /\ Len(network) = 2
          /\ network[1].request.fn = "authenticate"
          /\ network[2].request.fn = "upload"
          /\ AuthAccepted(network[1].reply)
          /\ network[1].reply.body \in TokenBodies
          /\ "MetadataResolved" \in Stages
          /\ network[2].request.headers.Authorization =
                 <<"bearer ">> \o TokenIn(network[1].reply.body)

Below400(reply) == reply.transport = "ok" /\ reply.status < 400

\* C10 as stated: in every run the stages are visited in the order Start, Configured,
\* Authenticated, MetadataResolved, Uploaded, Done, left at most once for a terminal
\* state; at most one authenticate and one upload request are issued, the upload
\* request only after authenticate returned 2xx with an access_token and metadata was
\* resolved, carrying that access token; and no refresh request is issued.
C10_OneOrderedRun == RunDiscipline(Is2xx)

\* C10 amended: the same, with the upload request issued only after authenticate
\* returned a status below 400 (2xx, or a 3xx that requests did not follow) with an
\* access_token, and with the order left either for Failed or by an uncaught exception.
C10_OneOrderedRunBelow400 == RunDiscipline(Below400)

\* C10 witness: a run has reached Done after one authenticate and one upload request.
C10_Witness ==
    /\ pc = "Done"
    /\ Len(network) = 2
    /\ visited = Order

====
